---- MODULE Spec2Model ----
(***************************************************************************)
(* Model of src/pipeline.py: a one-shot ETL script that fetches a CSV      *)
(* export over HTTP, cleans the column names, resolves the survey columns  *)
(* by keyword, drops and re-creates the destination table and inserts the  *)
(* rows one by one through a psycopg2 connection, committing once.         *)
(*                                                                         *)
(* The connection is opened with psycopg2's defaults (pipeline.py:62-68,   *)
(* autocommit is never set), so the first execute() opens a transaction    *)
(* that lasts until conn.commit(); a statement the server rejects puts     *)
(* that transaction in the aborted state, in which every later statement   *)
(* is rejected and COMMIT acts as ROLLBACK.                                *)
(***************************************************************************)
EXTENDS Integers, Sequences, FiniteSets, TLC

VARIABLES
    pc,               \* position of the script
    run,              \* number of the current execution of the script
    status,           \* response.status_code
    columns,          \* df.columns after cleaning (line 46)
    df,               \* the rows of the DataFrame, one tuple of cells per row
    conn,             \* the connection: "none", "open", "lost", "closed"
    tx,               \* the connection's transaction: state and working copy
    db,               \* the committed content of the store
    db0,              \* the committed content when this execution started
    cols,             \* age_col .. gender_col (lines 81-88)
    idx,              \* number of rows the loop has attempted
    records_inserted, \* line 119
    errors_count,     \* line 120
    commit_calls,     \* number of calls of conn.commit()
    total_records,    \* line 178, NoCount before the read
    sent,             \* per attempted row: the insert parameters and the outcome
    rewrites,         \* a raw column name followed by its successive cleanings
    out               \* the kinds of line printed so far

vars == <<pc, run, status, columns, df, conn, tx, db, db0, cols, idx,
          records_inserted, errors_count, commit_calls, total_records, sent,
          rewrites, out>>

(***************************************************************************)
(* Bounds of the model.                                                    *)
(***************************************************************************)
MaxRows == 2
MaxCols == 2
MaxRuns == 2
MaxNameLen == 3

(***************************************************************************)
(* Field names are tuples of one-character strings. H_* are raw header     *)
(* names of the export, K_* the keywords of lines 81-88.                   *)
(***************************************************************************)
H_Age_Group == <<"A","g","e"," ","G","r","o","u","p">>
H_age_group_old == <<"a","g","e","-","g","r","o","u","p"," ","o","l","d">>
H_Gender == <<"G","e","n","d","e","r","?">>
H_Healthcare_Visits == <<"H","e","a","l","t","h","c","a","r","e"," ","V","i","s","i","t","s">>
H_Last_visit == <<" ","L","a","s","t"," ","v","i","s","i","t">>
H_start == <<"s","t","a","r","t">>
H_Start == <<"S","t","a","r","t">>
H_end == <<"e","n","d">>

K_age == <<"a","g","e">>
K_group == <<"g","r","o","u","p">>
K_vaccin == <<"v","a","c","c","i","n">>
K_healthcare == <<"h","e","a","l","t","h","c","a","r","e">>
K_visit == <<"v","i","s","i","t">>
K_exercise == <<"e","x","e","r","c","i","s","e">>
K_physical == <<"p","h","y","s","i","c","a","l">>
K_water == <<"w","a","t","e","r">>
K_drinking == <<"d","r","i","n","k","i","n","g">>
K_sleep == <<"s","l","e","e","p">>
K_hour == <<"h","o","u","r">>
K_insurance == <<"i","n","s","u","r","a","n","c","e">>
K_coverage == <<"c","o","v","e","r","a","g","e">>
K_gender == <<"g","e","n","d","e","r">>

\* str.lower() on one character
LowerChar(ch) ==
    CASE ch = "A" -> "a"
      [] ch = "B" -> "b"
      [] ch = "C" -> "c"
      [] ch = "D" -> "d"
      [] ch = "E" -> "e"
      [] ch = "F" -> "f"
      [] ch = "G" -> "g"
      [] ch = "H" -> "h"
      [] ch = "I" -> "i"
      [] ch = "J" -> "j"
      [] ch = "K" -> "k"
      [] ch = "L" -> "l"
      [] ch = "M" -> "m"
      [] ch = "N" -> "n"
      [] ch = "O" -> "o"
      [] ch = "P" -> "p"
      [] ch = "Q" -> "q"
      [] ch = "R" -> "r"
      [] ch = "S" -> "s"
      [] ch = "T" -> "t"
      [] ch = "U" -> "u"
      [] ch = "V" -> "v"
      [] ch = "W" -> "w"
      [] ch = "X" -> "x"
      [] ch = "Y" -> "y"
      [] ch = "Z" -> "z"
      [] OTHER -> ch

\* c.lower()
Lower(c) == [i \in 1..Len(c) |-> LowerChar(c[i])]

\* k in s (substring test)
Contains(s, k) ==
    \E i \in 0..(Len(s) - Len(k)) : \A j \in 1..Len(k) : s[i + j] = k[j]

\* the conditions of the comprehensions of lines 81-88
AgeMatch(c) == Contains(Lower(c), K_age) /\ Contains(Lower(c), K_group)
VaccMatch(c) == Contains(Lower(c), K_vaccin)
VisitMatch(c) == Contains(Lower(c), K_healthcare) \/ Contains(Lower(c), K_visit)
ExerciseMatch(c) == Contains(Lower(c), K_exercise) \/ Contains(Lower(c), K_physical)
WaterMatch(c) == Contains(Lower(c), K_water) \/ Contains(Lower(c), K_drinking)
SleepMatch(c) == Contains(Lower(c), K_sleep) \/ Contains(Lower(c), K_hour)
InsuranceMatch(c) == Contains(Lower(c), K_insurance) \/ Contains(Lower(c), K_coverage)
GenderMatch(c) == Contains(Lower(c), K_gender)

\* the eight lists of lines 81-88, each in column order
ResolveCols(cs) ==
    [ age       |-> SelectSeq(cs, AgeMatch),
      vacc      |-> SelectSeq(cs, VaccMatch),
      visit     |-> SelectSeq(cs, VisitMatch),
      exercise  |-> SelectSeq(cs, ExerciseMatch),
      water     |-> SelectSeq(cs, WaterMatch),
      sleep     |-> SelectSeq(cs, SleepMatch),
      insurance |-> SelectSeq(cs, InsuranceMatch),
      gender    |-> SelectSeq(cs, GenderMatch) ]

NoCols == ResolveCols(<< >>)

(***************************************************************************)
(* Line 46: the cleaning of a column name.                                 *)
(***************************************************************************)
\* the characters str.strip() removes (of those the names use)
IsSpace(ch) == ch \in {" ", "\t"}

RECURSIVE LStrip(_)
LStrip(s) == IF s # << >> /\ IsSpace(Head(s)) THEN LStrip(Tail(s)) ELSE s

RECURSIVE RStrip(_)
RStrip(s) ==
    IF s # << >> /\ IsSpace(s[Len(s)]) THEN RStrip(SubSeq(s, 1, Len(s) - 1)) ELSE s

\* col.strip()
Strip(s) == RStrip(LStrip(s))

\* s.replace(ch, rep) for a one-character ch
RECURSIVE Replace(_, _, _)
Replace(s, ch, rep) ==
    IF s = << >> THEN << >>
    ELSE (IF Head(s) = ch THEN rep ELSE <<Head(s)>>) \o Replace(Tail(s), ch, rep)

\* col.strip().replace(" ","_").replace("/","_").replace("?","").replace("-","_").replace("&","and")
CleanName(col) ==
    Replace(Replace(Replace(Replace(Replace(Strip(col),
        " ", <<"_">>), "/", <<"_">>), "?", << >>), "-", <<"_">>), "&", <<"a","n","d">>)

CleanColumns(hdr) == [i \in 1..Len(hdr) |-> CleanName(hdr[i])]

(***************************************************************************)
(* Cells. A field of the export is one of                                  *)
(*   empty, na ("N/A"), num (a number with a fraction, v in tenths), int   *)
(*   (a whole number v), text (v characters, neither a number nor a date), *)
(*   date (a date, as text).                                               *)
(* pd.read_csv (line 37) turns empty and N/A fields into NaN. A cell of    *)
(* the DataFrame is [k, v]: nan, num (v in tenths), str (v characters),    *)
(* whole (a Python int or a whole numeral, v the number), datestr, and, in *)
(* a column line 50 or 52 converted, ts or nat; npnum is a num that        *)
(* reaches the insert as a numpy.float64 with the NumPy 2 repr, npwhole a  *)
(* whole that reaches it as a numpy.int64.                                 *)
(***************************************************************************)
Cell(k, v) == [k |-> k, v |-> v]
None == Cell("none", 0)
NaN == Cell("nan", 0)
NaT == Cell("nat", 0)

\* pd.read_csv on one field (default na_values). A num cell stands for the
\* number, which in a column of dtype object is kept as its numeral; float()
\* of lines 139 and 144 and the VARCHAR columns take both alike.
ReadCsvCell(f) ==
    CASE f.k \in {"empty", "na"} -> NaN
      [] f.k = "num"  -> Cell("num", f.v)
      [] f.k = "int"  -> Cell("whole", f.v)
      [] f.k = "text" -> Cell("str", f.v)
      [] f.k = "date" -> Cell("datestr", f.v)

\* StartName with a fault: the name is looked up capitalised
StartNameCapital == <<"S","t","a","r","t">>
\* the labels 'start' and 'end' of lines 49-52 and 148-149
StartName == <<"s","t","a","r","t">>
EndName == <<"e","n","d">>

\* pd.read_csv infers the dtype by column: column i is of dtype object when
\* one of its fields is a text, and numeric (or empty) otherwise
ObjectColumn(rows, i) ==
    \E r \in 1..Len(rows) : rows[r][i].k \in {"text", "date"}

\* pd.to_datetime(..., errors='coerce') on one cell of a column: a date text
\* is parsed, a number is taken as an epoch offset in a numeric column and is
\* an unparsable numeral in a column of dtype object
ToDatetime(c, object) ==
    CASE c.k = "datestr" -> Cell("ts", c.v)
      [] c.k \in {"num", "whole"} /\ ~object -> Cell("ts", c.v)
      [] OTHER -> NaT

\* the dtype of column i of the DataFrame after lines 37-52: datetime64 for
\* a converted column, object for a column holding a text, int64 for a
\* column of whole numbers only, float64 for any other column (a missing
\* field makes a column of numbers float64)
ColumnDtype(cs, rows, i) ==
    IF cs[i] \in {StartName, EndName} THEN "datetime64"
    ELSE IF ObjectColumn(rows, i) THEN "object"
    ELSE IF rows # << >> /\ \A r \in 1..Len(rows) : rows[r][i].k = "int" THEN "int64"
    ELSE "float64"

\* every column of the DataFrame is int64: iterrows() yields rows of dtype
\* int64, whose values are numpy.int64 scalars
IntFrame(cs, rows) ==
    \A i \in 1..Len(cs) : ColumnDtype(cs, rows, i) = "int64"

\* every column of the DataFrame is numeric and one is float64: iterrows()
\* yields rows of dtype float64, whose values are numpy.float64 scalars. In
\* any other frame the row is of dtype object and a number is a Python
\* float, a Python int or a numeral.
FloatFrame(cs, rows) ==
    /\ \A i \in 1..Len(cs) : ColumnDtype(cs, rows, i) \in {"int64", "float64"}
    /\ ~IntFrame(cs, rows)

\* a number field as a float, in tenths
Tenths(f) == IF f.k = "int" THEN 10 * f.v ELSE f.v

\* repr() of a numpy.float64 in the installed NumPy: the number ("plain",
\* NumPy 1.x) or np.float64(...) ("np", NumPy 2 and later)
ScalarReprs == {"plain", "np"}

\* the values of the DataFrame's rows for the cleaned columns cs, under the
\* scalar repr rp of the installed NumPy. An npnum cell is a numpy.float64
\* whose repr is np.float64(...), an npwhole cell a numpy.int64. A whole
\* number in a float64 column or row is a float.
FrameValues(cs, rows, rp) ==
    [r \in 1..Len(rows) |->
        [i \in 1..Len(cs) |->
            LET f == rows[r][i]
            IN  IF cs[i] \in {StartName, EndName}
                THEN ToDatetime(ReadCsvCell(f), ObjectColumn(rows, i))
                ELSE IF IntFrame(cs, rows)
                THEN Cell("npwhole", f.v)
                ELSE IF f.k \in {"num", "int"} /\ FloatFrame(cs, rows)
                THEN Cell(IF rp = "np" THEN "npnum" ELSE "num", Tenths(f))
                ELSE IF f.k = "int" /\ ColumnDtype(cs, rows, i) = "float64"
                THEN Cell("num", Tenths(f))
                ELSE ReadCsvCell(f)]]

\* iterrows() builds each row as Series(values): an object array whose
\* values are all datetimes or missing, with a datetime or NaT among them,
\* is inferred as datetime64, and its NaN become NaT
InferredDatetime(row) ==
    /\ \A i \in 1..Len(row) : row[i].k \in {"ts", "nat", "nan"}
    /\ \E i \in 1..Len(row) : row[i].k \in {"ts", "nat"}

\* lines 37-52 and 124: the rows of the DataFrame for the cleaned columns cs
\* as the loop sees them
ReadFrame(cs, rows, rp) ==
    LET vals == FrameValues(cs, rows, rp)
    IN  [r \in 1..Len(rows) |->
            IF InferredDatetime(vals[r])
            THEN [i \in 1..Len(cs) |-> IF vals[r][i].k = "nan" THEN NaT ELSE vals[r][i]]
            ELSE vals[r]]

(***************************************************************************)
(* Lines 127-145: the parameters of one row's insert.                      *)
(***************************************************************************)
\* row.get(name, default): the cell under the label, default when no column has it
RowGet(cs, row, name, default) ==
    IF \E i \in 1..Len(cs) : cs[i] = name
    THEN row[CHOOSE i \in 1..Len(cs) : cs[i] = name /\ \A j \in 1..(i - 1) : cs[j] # name]
    ELSE default

\* FirstOf with a fault: col[-1]
LastOf(col) == col[Len(col)]

\* col[0]
FirstOf(col) == col[1]

\* row.get(col[0]) if col else None
StrVal(cs, row, col) == IF col # << >> THEN RowGet(cs, row, FirstOf(col), None) ELSE None

\* row.get(col[0], 0) if col else 0
NumVal(cs, row, col) ==
    IF col # << >> THEN RowGet(cs, row, FirstOf(col), Cell("num", 0)) ELSE Cell("num", 0)

\* pd.notna(v)
NotNa(v) == v.k \notin {"nan", "nat", "none"}

\* v is a whole number: a Python int, a whole numeral or a numpy.int64
IsWhole(v) == v.k \in {"whole", "npwhole"}

\* float(v) raises unless v is a number
FloatRaises(v) == v.k \notin {"num", "npnum", "whole", "npwhole"}

\* IntOfFloat with a fault: rounding down instead of towards zero
IntOfFloatFloor(t) == t \div 10

\* int(x) of a float given in tenths: truncation towards zero
IntOfFloat(t) == IF t >= 0 THEN t \div 10 ELSE -((-t) \div 10)

\* lines 137-140
ConvertVisit(v) ==
    IF ~NotNa(v) THEN Cell("int", 0)
    ELSE IF FloatRaises(v) THEN Cell("int", 0)
    ELSE IF IsWhole(v) THEN Cell("int", v.v)
    ELSE Cell("int", IntOfFloat(v.v))

\* lines 142-145
ConvertSleep(v) ==
    IF ~NotNa(v) THEN Cell("int", 0)
    ELSE IF FloatRaises(v) THEN Cell("int", 0)
    ELSE IF IsWhole(v) THEN Cell("float", 10 * v.v)
    ELSE Cell("float", v.v)

\* lines 127-158: the tuple handed to cur.execute
BuildParams(cs, cl, row) ==
    [ submission_start        |-> RowGet(cs, row, StartName, None),
      submission_end          |-> RowGet(cs, row, EndName, None),
      age_group               |-> StrVal(cs, row, cl.age),
      gender                  |-> StrVal(cs, row, cl.gender),
      vaccination_status      |-> StrVal(cs, row, cl.vacc),
      healthcare_visits_count |-> ConvertVisit(NumVal(cs, row, cl.visit)),
      exercise_frequency      |-> StrVal(cs, row, cl.exercise),
      water_source            |-> StrVal(cs, row, cl.water),
      sleep_hours             |-> ConvertSleep(NumVal(cs, row, cl.sleep)),
      health_insurance        |-> StrVal(cs, row, cl.insurance) ]

(***************************************************************************)
(* The store. A table is [exists, rows]; the store is [schema, table].     *)
(* The transaction is [state, work]: state is "none", "active" or          *)
(* "aborted", work the transaction's copy of the store.                    *)
(***************************************************************************)
NoTable == [exists |-> FALSE, rows |-> << >>]
EmptyStore == [schema |-> FALSE, table |-> NoTable]
NoTx == [state |-> "none", work |-> EmptyStore]

\* the column widths of the CREATE TABLE of lines 91-106
AgeGroupLen == 100
GenderLen == 50
VaccinationLen == 100
ExerciseLen == 100
WaterLen == 100
InsuranceLen == 50

\* a text longer than a VARCHAR(n) column
TooLong(p, n) == p.k = "str" /\ p.v > n

\* psycopg2 writes a float parameter as its repr(): a numpy.float64 whose
\* repr is np.float64(...) makes a statement the server refuses
ReprRefused(p) == p.k = "npnum"

\* psycopg2 has no adapter for a numpy.int64: cursor.execute raises
\* ProgrammingError (can't adapt type) before anything is sent, and the
\* transaction stays as it is. Of the parameters only the six that lines
\* 127-134 pass on unconverted can be one. (A True/False column gives
\* numpy.bool_ in the same way; the inputs have none.)
NotAdapted(p) ==
    \E v \in {p.age_group, p.gender, p.vaccination_status,
              p.exercise_frequency, p.water_source, p.health_insurance} :
        v.k = "npwhole"

\* the server rejects the INSERT of these parameters: a text too long for its
\* column, NaT in any position (psycopg2 writes it as 'NaT'::timestamp,
\* which is no timestamp), or a parameter written as np.float64(...)
InsertRejected(p) ==
    \/ p.submission_start.k = "nat"
    \/ p.submission_end.k = "nat"
    \/ \E v \in {p.age_group, p.gender, p.vaccination_status,
                 p.exercise_frequency, p.water_source, p.health_insurance} :
          v.k = "nat" \/ ReprRefused(v)
    \/ TooLong(p.age_group, AgeGroupLen)
    \/ TooLong(p.gender, GenderLen)
    \/ TooLong(p.vaccination_status, VaccinationLen)
    \/ TooLong(p.exercise_frequency, ExerciseLen)
    \/ TooLong(p.water_source, WaterLen)
    \/ TooLong(p.health_insurance, InsuranceLen)

\* what a VARCHAR column holds for a parameter: NULL for None, the text
\* 'NaN' for a float NaN, the number's text for a number
StoreText(p) ==
    CASE p.k = "none" -> Cell("null", 0)
      [] p.k = "nan"  -> Cell("str", 3)
      [] p.k = "num"  -> Cell("numtext", p.v)
      [] p.k = "whole" -> Cell("wholetext", p.v)
      [] OTHER        -> p

\* what a TIMESTAMP column holds for a parameter
StoreTimestamp(p) == IF p.k = "none" THEN Cell("null", 0) ELSE p

\* the row the INSERT of lines 110-116 adds; id is the SERIAL key
StoredRow(id, p) ==
    [ id                      |-> id,
      submission_start        |-> StoreTimestamp(p.submission_start),
      submission_end          |-> StoreTimestamp(p.submission_end),
      age_group               |-> StoreText(p.age_group),
      gender                  |-> StoreText(p.gender),
      vaccination_status      |-> StoreText(p.vaccination_status),
      healthcare_visits_count |-> p.healthcare_visits_count,
      exercise_frequency      |-> StoreText(p.exercise_frequency),
      water_source            |-> StoreText(p.water_source),
      sleep_hours             |-> p.sleep_hours,
      health_insurance        |-> StoreText(p.health_insurance) ]

\* AddRow with a fault: the new row goes in front
AddRowFirst(rows, p) == <<StoredRow(Len(rows) + 1, p)>> \o rows

\* the table's rows after the INSERT of p: the new row comes last, with
\* the next SERIAL key
AddRow(rows, p) == Append(rows, StoredRow(Len(rows) + 1, p))

\* CountError with a fault: the failure is not counted
CountErrorSkipped(e) == e

\* line 166: errors_count += 1
CountError(e) == e + 1

\* cursor.execute on a connection without autocommit opens a transaction
\* on the committed content d unless one is open
Begin(t, d) == IF t.state = "none" THEN [state |-> "active", work |-> d] ELSE t

\* a statement the server rejects aborts the transaction
Aborted(t, d) == [state |-> "aborted", work |-> d]

\* AfterStatement with a fault: a connection with autocommit on
AfterStatementAutocommit(d, w) == w

\* the committed content after a statement ran in a transaction whose copy
\* is w: unchanged, since autocommit is off
AfterStatement(d, w) == d

\* the committed content after COMMIT: the transaction's copy, or, for an
\* aborted transaction (COMMIT acts as ROLLBACK), the content as it was
AfterCommit(d, t) == IF t.state = "active" THEN t.work ELSE d

\* LoopDone with a fault: the commit inside the loop
LoopDoneEarly(i, n) == i >= 1

\* line 124: the loop is over when each of the n rows was attempted
LoopDone(i, n) == i = n

\* what a row's insert does on connection c in transaction t
RowOutcome(c, t, p) ==
    IF c # "open" THEN "no_connection"
    ELSE IF NotAdapted(p) THEN "not_adapted"
    ELSE IF t.state = "aborted" THEN "in_failed_transaction"
    ELSE IF InsertRejected(p) THEN "rejected"
    ELSE "ok"

(***************************************************************************)
(* The inputs.                                                             *)
(***************************************************************************)
Field(k, v) == [k |-> k, v |-> v]

StatusCodes == {200, 403}

\* Spec: one export layout, batches of up to MaxRows rows drawn from a row
\* that loads, a row with empty fields and a row whose Gender text does not
\* fit VARCHAR(50)
LoadHeader == <<H_start, H_Gender, H_Healthcare_Visits>>
RowGood == <<Field("date", 1), Field("text", 4), Field("num", 37)>>
RowSparse == <<Field("date", 2), Field("empty", 0), Field("na", 0)>>
RowBad == <<Field("date", 3), Field("text", 60), Field("num", -25)>>
RowPool == {RowGood, RowSparse, RowBad}
Batches == UNION {[1..n -> RowPool] : n \in 0..MaxRows}

\* Spec, a second export layout without a start column: rows of whole
\* numbers, or of a text and a whole number
CodedHeader == <<H_Gender, H_Healthcare_Visits>>
RowCoded == <<Field("int", 2), Field("int", 3)>>
RowNamed == <<Field("text", 4), Field("int", 3)>>
CodedPool == {RowCoded, RowNamed}
CodedBatches == UNION {[1..n -> CodedPool] : n \in 1..MaxRows}

\* SpecWide: every header of up to MaxCols raw names whose cleaned names
\* differ, with one row of fields, one row of a whole number, a short text
\* or an empty field, or two rows of a number or a short text
WideNames == {H_Age_Group, H_age_group_old, H_Gender, H_Healthcare_Visits,
              H_Last_visit, H_start, H_Start, H_end}
WideFields == {Field("empty", 0), Field("na", 0), Field("num", -25),
               Field("text", 4), Field("text", 60), Field("date", 1)}
PairFields == {Field("num", 37), Field("text", 4)}
WholeFields == {Field("int", 2), Field("text", 4), Field("empty", 0)}
WideBatches(n) ==
    {<<r>> : r \in [1..n -> WideFields]}
        \cup {<<r>> : r \in [1..n -> WholeFields]}
        \cup {<<r1, r2>> : r1 \in [1..n -> PairFields], r2 \in [1..n -> PairFields]}
WideHeaders ==
    {h \in UNION {[1..n -> WideNames] : n \in 0..MaxCols} :
        \A i, j \in 1..Len(h) : i # j => CleanName(h[i]) # CleanName(h[j])}

(***************************************************************************)
(* The script.                                                             *)
(***************************************************************************)
load == <<idx, records_inserted, errors_count, commit_calls, total_records, sent>>

Init ==
    /\ pc = "start"
    /\ run = 1
    /\ status = 0
    /\ columns = << >>
    /\ df = << >>
    /\ conn = "none"
    /\ tx = NoTx
    /\ db = EmptyStore
    /\ db0 = EmptyStore
    /\ cols = NoCols
    /\ idx = 0
    /\ records_inserted = 0
    /\ errors_count = 0
    /\ commit_calls = 0
    /\ total_records = << >>
    /\ sent = << >>
    /\ rewrites = << >>
    /\ out = {}

\* FetchStep with a fault: the status is not checked
FetchStepUnchecked(st, hdr, rows) ==
    /\ pc = "start"
    /\ status' = st
    /\ columns' = CleanColumns(hdr)
    /\ \E rp \in ScalarReprs : df' = ReadFrame(CleanColumns(hdr), rows, rp)
    /\ out' = out \cup {"fetched"}
    /\ pc' = "connect"
    /\ UNCHANGED <<rewrites, run, conn, tx, db, db0, cols, load>>

\* lines 30-55 and 195-200: the fetch, the status check, the DataFrame.
\* pd.read_csv raises EmptyDataError on an export without columns; line 37
\* is in no try, so the script ends there with a traceback.
FetchStep(st, hdr, rows) ==
    /\ pc = "start"
    /\ status' = st
    /\ \/ /\ st = 200
          /\ hdr = << >>
          /\ out' = out \cup {"fetched"}
          /\ pc' = "crashed"
          /\ UNCHANGED <<columns, df>>
       \/ /\ st = 200
          /\ hdr # << >>
          /\ columns' = CleanColumns(hdr)
          /\ \E rp \in ScalarReprs : df' = ReadFrame(CleanColumns(hdr), rows, rp)
          /\ out' = out \cup {"fetched"}
          /\ pc' = "connect"
       \/ /\ st # 200
          /\ out' = out \cup {"fetch_failed"}
          /\ pc' = "fetch_failed"
          /\ UNCHANGED <<columns, df>>
    /\ UNCHANGED <<rewrites, run, conn, tx, db, db0, cols, load>>

Fetch ==
    /\ pc = "start"
    /\ \E st \in StatusCodes :
          \/ \E rows \in Batches : FetchStep(st, LoadHeader, rows)
          \/ \E rows \in CodedBatches : FetchStep(st, CodedHeader, rows)

FetchWide ==
    /\ pc = "start"
    /\ \E st \in StatusCodes, hdr \in WideHeaders :
          \E rows \in WideBatches(Len(hdr)) : FetchStep(st, hdr, rows)

\* lines 60-71 (and 190-191 when psycopg2.connect raises)
Connect ==
    /\ pc = "connect"
    /\ \/ /\ conn' = "open"
          /\ out' = out \cup {"connected"}
          /\ pc' = "schema"
       \/ /\ out' = out \cup {"pg_error"}
          /\ pc' = "failed"
          /\ UNCHANGED conn
    /\ UNCHANGED <<rewrites, run, status, columns, df, tx, db, db0, cols, load>>

\* PrepareFails with a fault: the error is swallowed and the load goes on
PrepareFailsSwallowed ==
    /\ tx' = Aborted(Begin(tx, db), db)
    /\ out' = out \cup {"pg_error"}
    /\ pc' = "loop"
    /\ UNCHANGED <<rewrites, run, status, columns, df, conn, db, db0, cols, load>>

\* PrepareFails with a fault: the failure is retried from the connection
PrepareFailsRetried ==
    /\ tx' = NoTx
    /\ out' = out \cup {"pg_error"}
    /\ pc' = "connect"
    /\ UNCHANGED <<rewrites, run, status, columns, df, conn, db, db0, cols, load>>

\* a statement of the table preparation raises: lines 190-191
PrepareFails ==
    /\ tx' = Aborted(Begin(tx, db), db)
    /\ out' = out \cup {"pg_error"}
    /\ pc' = "failed"
    /\ UNCHANGED <<rewrites, run, status, columns, df, conn, db, db0, cols, load>>

\* lines 73-75: CREATE SCHEMA IF NOT EXISTS
CreateSchema ==
    /\ pc = "schema"
    /\ \/ /\ tx' = [Begin(tx, db) EXCEPT !.work.schema = TRUE]
          /\ db' = AfterStatement(db, tx'.work)
          /\ out' = out \cup {"schema_ready"}
          /\ pc' = "drop"
          /\ UNCHANGED <<rewrites, run, status, columns, df, conn, db0, cols, load>>
       \/ PrepareFails

\* lines 77-88: DROP TABLE IF EXISTS, then the column lists
DropTable ==
    /\ pc = "drop"
    /\ \/ /\ tx' = [Begin(tx, db) EXCEPT !.work.table = NoTable]
          /\ db' = AfterStatement(db, tx'.work)
          /\ cols' = ResolveCols(columns)
          /\ pc' = "create"
          /\ UNCHANGED <<rewrites, run, status, columns, df, conn, db0, load, out>>
       \/ PrepareFails

\* lines 90-122: CREATE TABLE, the counters
CreateTable ==
    /\ pc = "create"
    /\ \/ /\ tx' = [Begin(tx, db) EXCEPT !.work.table = [exists |-> TRUE, rows |-> << >>]]
          /\ db' = AfterStatement(db, tx'.work)
          /\ out' = out \cup {"table_created"}
          /\ pc' = "loop"
          /\ UNCHANGED <<rewrites, run, status, columns, df, conn, db0, cols, load>>
       \/ PrepareFails

\* lines 124-168: one iteration of the row loop
InsertRow ==
    /\ pc = "loop"
    /\ idx < Len(df)
    /\ LET p == BuildParams(columns, cols, df[idx + 1])
           o == RowOutcome(conn, tx, p)
       IN  \/ /\ o = "ok"
              /\ tx' = [tx EXCEPT !.work.table.rows = AddRow(@, p)]
              /\ db' = AfterStatement(db, tx'.work)
              /\ records_inserted' = records_inserted + 1
              /\ sent' = Append(sent, [params |-> p, ok |-> TRUE])
              /\ UNCHANGED <<conn, errors_count, out>>
           \/ /\ o # "ok"
              /\ tx' = IF o = "rejected" THEN Aborted(tx, db) ELSE tx
              /\ errors_count' = CountError(errors_count)
              /\ sent' = Append(sent, [params |-> p, ok |-> FALSE])
              /\ out' = out \cup {"row_warning"}
              /\ UNCHANGED <<conn, db, records_inserted>>
           \/ /\ o \notin {"no_connection", "not_adapted"}  \* the connection drops at this statement
              /\ conn' = "lost"
              /\ errors_count' = CountError(errors_count)
              /\ sent' = Append(sent, [params |-> p, ok |-> FALSE])
              /\ out' = out \cup {"row_warning"}
              /\ UNCHANGED <<tx, db, records_inserted>>
    /\ idx' = idx + 1
    /\ UNCHANGED <<pc, rewrites, run, status, columns, df, db0, cols, commit_calls, total_records>>

\* lines 170-174: conn.commit() after the loop, the summary
Commit ==
    /\ pc = "loop"
    /\ LoopDone(idx, Len(df))
    /\ commit_calls' = commit_calls + 1
    /\ \/ /\ conn = "open"
          /\ db' = AfterCommit(db, tx)
          /\ tx' = NoTx
          /\ out' = out \cup {"inserted_summary"}
                        \cup (IF errors_count > 0 THEN {"failed_summary"} ELSE {})
          /\ pc' = "verify"
          /\ UNCHANGED conn
       \/ /\ conn = "lost"                      \* InterfaceError: lines 190-191
          /\ out' = out \cup {"pg_error"}
          /\ pc' = "failed"
          /\ UNCHANGED <<conn, tx, db>>
       \/ /\ conn = "open"                      \* the connection drops during COMMIT
          /\ conn' = "lost"
          /\ db' \in {db, AfterCommit(db, tx)}
          /\ out' = out \cup {"pg_error"}
          /\ pc' = "failed"
          /\ UNCHANGED tx
    /\ UNCHANGED <<rewrites, run, status, columns, df, db0, cols, idx, records_inserted,
                   errors_count, total_records, sent>>

\* lines 176-188: SELECT COUNT(*), close, the closing banner
Verify ==
    /\ pc = "verify"
    /\ \/ /\ db.table.exists
          /\ total_records' = <<Len(db.table.rows)>>
          /\ conn' = "closed"
          /\ out' = out \cup {"total", "closed", "completed"}
          /\ pc' = "done"
          /\ UNCHANGED tx
       \/ /\ ~db.table.exists                   \* UndefinedTable: lines 190-191
          /\ tx' = Aborted(tx, db)
          /\ out' = out \cup {"pg_error"}
          /\ pc' = "failed"
          /\ UNCHANGED <<conn, total_records>>
       \/ /\ conn' = "lost"                     \* the connection drops
          /\ out' = out \cup {"pg_error"}
          /\ pc' = "failed"
          /\ UNCHANGED <<tx, total_records>>
    /\ UNCHANGED <<rewrites, run, status, columns, df, db, db0, cols, idx, records_inserted,
                   errors_count, commit_calls, sent>>

\* the script is run again: a new process against the same store
Rerun ==
    /\ pc \in {"done", "failed", "fetch_failed", "crashed"}
    /\ run < MaxRuns
    /\ run' = run + 1
    /\ pc' = "start"
    /\ status' = 0
    /\ columns' = << >>
    /\ df' = << >>
    /\ conn' = "none"
    /\ tx' = NoTx
    /\ db0' = db
    /\ cols' = NoCols
    /\ idx' = 0
    /\ records_inserted' = 0
    /\ errors_count' = 0
    /\ commit_calls' = 0
    /\ total_records' = << >>
    /\ sent' = << >>
    /\ out' = {}
    /\ UNCHANGED <<db, rewrites>>

Pipeline == Connect \/ CreateSchema \/ DropTable \/ CreateTable \/ InsertRow \/ Commit \/ Verify

Next == Fetch \/ Pipeline \/ Rerun

Spec == Init /\ [][Next]_vars

NextWide == FetchWide \/ Pipeline

SpecWide == Init /\ [][NextWide]_vars

\* the script runs on: each call returns or raises, and the next statement
\* follows
SpecLive == Init /\ [][Next]_vars /\ WF_vars(Pipeline)

(***************************************************************************)
(* Line 46 on its own: every name of up to MaxNameLen characters over the  *)
(* characters the cleaning touches, the whitespace str.strip() removes and *)
(* a letter, cleaned and cleaned again.                                    *)
(***************************************************************************)
NameChars == {" ", "\t", "/", "?", "-", "&", "a"}
RawNames == UNION {[1..n -> NameChars] : n \in 0..MaxNameLen}

InitClean ==
    /\ pc = "start"
    /\ run = 1
    /\ status = 0
    /\ columns = << >>
    /\ df = << >>
    /\ conn = "none"
    /\ tx = NoTx
    /\ db = EmptyStore
    /\ db0 = EmptyStore
    /\ cols = NoCols
    /\ idx = 0
    /\ records_inserted = 0
    /\ errors_count = 0
    /\ commit_calls = 0
    /\ total_records = << >>
    /\ sent = << >>
    /\ rewrites \in {<<h>> : h \in RawNames}
    /\ out = {}

\* line 46 applied to the name, then to its result
Rewrite ==
    /\ rewrites # << >>
    /\ Len(rewrites) < 3
    /\ rewrites' = Append(rewrites, CleanName(rewrites[Len(rewrites)]))
    /\ UNCHANGED <<pc, run, status, columns, df, conn, tx, db, db0, cols, load, out>>

NextClean == Rewrite

SpecClean == InitClean /\ [][NextClean]_vars

(***************************************************************************)
(* Properties.                                                             *)
(***************************************************************************)
\* the parameters the loop builds for row i of the DataFrame
ParamsOf(i) == BuildParams(columns, ResolveCols(columns), df[i])

\* the rows of the DataFrame whose own insert fails: the server rejects it
\* or psycopg2 cannot adapt a parameter
RejectedRows ==
    {i \in 1..Len(df) : InsertRejected(ParamsOf(i)) \/ NotAdapted(ParamsOf(i))}

\* the table preparation has passed (line 107 printed)
Prepared == "table_created" \in out

\* the rows this execution inserted, as the table holds them
IsOk(e) == e.ok
InsertedRows ==
    LET oks == SelectSeq(sent, IsOk)
    IN  [k \in 1..Len(oks) |-> StoredRow(k, oks[k].params)]

\* a stored row with its key left out
Content(r) == [r EXCEPT !.id = 0]

\* C1: a batch of N rows of which exactly one is rejected by the store ends
\* with N-1 rows inserted, one failed, the commit in effect (the table holds
\* the N-1 rows) and no abort. Stated for the executions whose connection
\* is never lost. The code violates it.
C1_OneRejectedRowLoadsTheRest ==
    (Prepared /\ pc \in {"verify", "done", "failed"} /\ conn # "lost"
        /\ Cardinality(RejectedRows) = 1)
    => /\ pc # "failed"
       /\ records_inserted = Len(df) - 1
       /\ errors_count = 1
       /\ db.table.exists
       /\ Len(db.table.rows) = Len(df) - 1

\* C2: after the commit, every row whose own insert the store does not
\* reject is in the destination table, wherever the rejected rows are.
\* The code violates it.
C2_FailureAffectsNoOtherRow ==
    (pc \in {"verify", "done"})
    => \A i \in 1..Len(df) :
          i \notin RejectedRows
          => \E j \in 1..Len(db.table.rows) :
                Content(db.table.rows[j]) = Content(StoredRow(0, ParamsOf(i)))

\* C3: a second complete execution leaves in the table exactly the rows it
\* inserted itself. The code violates it.
C3_SecondRunReplacesTheTable ==
    (run > 1 /\ pc = "done")
    => /\ db.table.exists
       /\ db.table.rows = InsertedRows
       /\ Len(db.table.rows) = records_inserted

\* the steps of C4: the commit counter moves once, from 0 to 1, after the
\* last row; rows are attempted only before, the count is read only after
C4_Steps ==
    (run' = run)
    => /\ (commit_calls' # commit_calls)
            => (commit_calls = 0 /\ commit_calls' = 1 /\ idx = Len(df)
                    /\ Len(sent) = Len(df))
       /\ (idx' # idx) => (commit_calls = 0)
       /\ (total_records' # total_records) => (commit_calls = 1)
C4_Ends ==
    /\ commit_calls \in {0, 1}
    /\ (Prepared /\ pc \in {"verify", "done", "failed"}) => commit_calls = 1
    /\ (pc \in {"verify", "done"}) => idx = Len(df)

\* C4: in an execution that passes the table preparation conn.commit() is
\* called exactly once, when every row has been attempted, and the count is
\* read only after it.
C4_CommitOnceAfterAllRows == []C4_Ends /\ [][C4_Steps]_vars
C4_Witness ==
    pc = "done" /\ Len(df) = 2 /\ commit_calls = 1 /\ total_records = <<2>>

\* C5: a status other than 200 ends the execution with no row attempted, no
\* connection, no statement executed, the store as it was, the diagnostic
\* printed and no success banner.
C5_FetchFailureTouchesNothing ==
    (pc # "start" /\ status # 200)
    => /\ pc = "fetch_failed"
       /\ idx = 0 /\ sent = << >>
       /\ conn = "none"
       /\ tx = NoTx
       /\ db = db0
       /\ "fetch_failed" \in out
       /\ "completed" \notin out
C5_Witness ==
    pc = "fetch_failed" /\ status = 403 /\ Len(db.table.rows) > 0 /\ db = db0

\* C6: when the connection or a statement of the table preparation fails,
\* the execution ends there: no row attempted, no commit, the store as it
\* was before the execution.
C6_PreparationFailureIsFatal ==
    (pc = "failed" /\ ~Prepared)
    => /\ idx = 0 /\ sent = << >>
       /\ records_inserted = 0 /\ errors_count = 0
       /\ commit_calls = 0
       /\ db = db0
       /\ "pg_error" \in out
       /\ "completed" \notin out
C6_Witness ==
    pc = "failed" /\ ~Prepared /\ "schema_ready" \in out /\ cols # NoCols
        /\ Len(db.table.rows) > 0

\* C7 as claimed: once the table preparation has run, the store holds the
\* fresh, empty table whatever becomes of the commit. The code violates it.
C7_PreparationOutsideTheTransaction ==
    (pc = "loop") => db.table = [exists |-> TRUE, rows |-> << >>]

\* the store changes only in the step of the commit after the last row,
\* and then to the fresh table with the rows the execution inserted
C7_Step ==
    (db' # db)
    => /\ pc = "loop" /\ idx = Len(df)
       /\ commit_calls' = commit_calls + 1
       /\ db' = [schema |-> TRUE, table |-> [exists |-> TRUE, rows |-> InsertedRows]]

\* C7 as amended: the drop and the re-creation belong to the transaction the
\* commit closes: after the table preparation and until the commit the store
\* holds what it held before the execution, and the removal of the prior
\* table and the fresh table take effect only with the commit, together with
\* the inserted rows.
C7_PreparationCommitsWithTheBatch ==
    /\ []((pc \in {"connect", "schema", "drop", "create", "loop"}) => db = db0)
    /\ [][C7_Step]_vars
C7_Witness ==
    /\ pc = "verify" /\ errors_count > 0
    /\ Len(db0.table.rows) > 0
    /\ db.table = [exists |-> TRUE, rows |-> << >>]

\* the keyword-matched roles, each with its rule, its list and its parameter
RoleNames == {"age", "gender", "vacc", "visit", "exercise", "water", "sleep", "insurance"}
StringRoles == RoleNames \ {"visit", "sleep"}

RoleMatch(r, c) ==
    CASE r = "age"       -> Contains(Lower(c), K_age) /\ Contains(Lower(c), K_group)
      [] r = "gender"    -> Contains(Lower(c), K_gender)
      [] r = "vacc"      -> Contains(Lower(c), K_vaccin)
      [] r = "visit"     -> Contains(Lower(c), K_healthcare) \/ Contains(Lower(c), K_visit)
      [] r = "exercise"  -> Contains(Lower(c), K_exercise) \/ Contains(Lower(c), K_physical)
      [] r = "water"     -> Contains(Lower(c), K_water) \/ Contains(Lower(c), K_drinking)
      [] r = "sleep"     -> Contains(Lower(c), K_sleep) \/ Contains(Lower(c), K_hour)
      [] r = "insurance" -> Contains(Lower(c), K_insurance) \/ Contains(Lower(c), K_coverage)

RoleParam(r, p) ==
    CASE r = "age"       -> p.age_group
      [] r = "gender"    -> p.gender
      [] r = "vacc"      -> p.vaccination_status
      [] r = "visit"     -> p.healthcare_visits_count
      [] r = "exercise"  -> p.exercise_frequency
      [] r = "water"     -> p.water_source
      [] r = "sleep"     -> p.sleep_hours
      [] r = "insurance" -> p.health_insurance

\* the parameter a role gets from the cell it reads
RoleValue(r, c) ==
    CASE r = "visit" -> ConvertVisit(c)
      [] r = "sleep" -> ConvertSleep(c)
      [] OTHER       -> c

\* the roles whose rule each cleaned name of the inputs matches
MatchingRoles ==
    [c \in {CleanName(h) : h \in WideNames} |-> {r \in RoleNames : RoleMatch(r, c)}]

\* the indices of the columns that match a role, and the smallest of them
Matches(r) == {i \in 1..Len(columns) : r \in MatchingRoles[columns[i]]}
FirstMatch(r) == CHOOSE i \in Matches(r) : \A j \in Matches(r) : i <= j

\* the column lists are computed (lines 81-88 have run)
Resolved == pc \in {"create", "loop", "verify", "done"} \/ (pc = "failed" /\ Prepared)

\* row k failed for a reason other than its own values' conversion: the
\* connection was lost, the store rejected it or an earlier row, or one of
\* its parameters could not be adapted
FailedForAnotherReason(k) ==
    \/ conn = "lost"
    \/ \E j \in 1..k : InsertRejected(sent[j].params)
    \/ NotAdapted(sent[k].params)

\* C8: when several column names match a role's rule, the role is bound to
\* the one with the smallest column index, and every row's value for the
\* role is read from that column.
C8_FirstMatchInColumnOrder ==
    Resolved
    => \A r \in RoleNames :
          Matches(r) # {}
          => /\ cols[r] # << >>
             /\ Head(cols[r]) = columns[FirstMatch(r)]
             /\ \A k \in 1..Len(sent) :
                   RoleParam(r, sent[k].params) = RoleValue(r, df[k][FirstMatch(r)])
C8_Witness ==
    /\ pc = "done" /\ Len(sent) = 2
    /\ \E r \in RoleNames : \E i \in Matches(r) :
          /\ i > FirstMatch(r)
          /\ df[2][i] # df[2][FirstMatch(r)]
          /\ RoleParam(r, sent[2].params) = RoleValue(r, df[2][FirstMatch(r)])

\* C9: a string role that is unbound, or whose cell in the row is empty, is
\* stored as NULL, and the row does not fail for that. The code violates it.
C9_MissingStringIsNull ==
    \A k \in 1..Len(sent) : \A r \in StringRoles :
        (cols[r] = << >> \/ RowGet(columns, df[k], cols[r][1], None).k \in {"nan", "nat"})
        => /\ StoreText(RoleParam(r, sent[k].params)).k = "null"
           /\ sent[k].ok \/ FailedForAnotherReason(k)

\* C10: the visit count handed to the insert is an integer: the source
\* number truncated towards zero when the cell is a number, 0 when the role
\* is unbound or the cell is missing or not a number; the conversion never
\* makes the row fail.
C10_VisitCountDefaultsToZero ==
    \A k \in 1..Len(sent) :
        LET v == sent[k].params.healthcare_visits_count
            bound == cols.visit # << >>
            c == IF bound THEN df[k][FirstMatch("visit")] ELSE None
        IN  /\ v.k = "int"
            /\ IF bound /\ c.k \in {"num", "npnum"}
               THEN /\ c.v >= 0 => (10 * v.v <= c.v /\ c.v < 10 * v.v + 10)
                    /\ c.v < 0 => (10 * v.v >= c.v /\ c.v > 10 * v.v - 10)
               ELSE IF bound /\ c.k \in {"whole", "npwhole"}
               THEN v.v = c.v
               ELSE v.v = 0
            /\ sent[k].ok \/ FailedForAnotherReason(k)
C10_Witness ==
    /\ pc = "done" /\ Len(sent) = 1 /\ sent[1].ok
    /\ cols.visit # << >>
    /\ df[1][FirstMatch("visit")].k = "str"
    /\ sent[1].params.healthcare_visits_count = Cell("int", 0)

\* C11: the cleaning of a column name is idempotent: cleaning the cleaned
\* name gives the cleaned name. The code violates it.
C11_RewriteIsIdempotent ==
    (Len(rewrites) = 3) => (rewrites[3] = rewrites[2])

\* C12: the rows an execution inserts get their keys in source order: the
\* transaction's table holds the inserted rows of the source in their order
\* with rising keys, a failed row leaving no gap in the order, and the
\* table a commit without failed rows leaves holds row k of the source under
\* key k.
C12_RowsInSourceOrder ==
    /\ \A k \in 1..Len(sent) : sent[k].params = ParamsOf(k)
    /\ (pc = "loop" /\ tx.state = "active") => tx.work.table.rows = InsertedRows
    /\ (pc \in {"verify", "done"})
        => /\ \A a, b \in 1..Len(db.table.rows) :
                a < b => db.table.rows[a].id < db.table.rows[b].id
           /\ errors_count = 0
                => db.table.rows = [k \in 1..Len(df) |-> StoredRow(k, ParamsOf(k))]
C12_Witness ==
    /\ pc = "done" /\ Len(df) = 2 /\ df[1] # df[2] /\ errors_count = 0
    /\ db.table.rows = <<StoredRow(1, ParamsOf(1)), StoredRow(2, ParamsOf(2))>>

\* the phase of the load for a position of the script and a row count
PhaseOf(p, i) ==
    CASE p \in {"connect", "schema", "drop", "create"} -> "Idle"
      [] p = "loop" /\ i = 0 -> "TablePrepared"
      [] p = "loop" /\ i > 0 -> "Loading"
      [] p = "verify" -> "Committed"
      [] p = "done"   -> "Verified"
      [] p = "failed" -> "AbortedFatal"
      [] OTHER        -> "NotLoading"

\* the moves of the load phase; an empty table goes from TablePrepared to
\* Committed without a row to load
PhaseMoves ==
    { <<"NotLoading", "Idle">>, <<"Idle", "TablePrepared">>,
      <<"TablePrepared", "Loading">>, <<"Loading", "Committed">>,
      <<"Committed", "Verified">>,
      <<"Idle", "AbortedFatal">>, <<"TablePrepared", "AbortedFatal">>,
      <<"Loading", "AbortedFatal">>, <<"Committed", "AbortedFatal">> }

C13_Step ==
    (run' = run)
    => /\ \/ PhaseOf(pc', idx') = PhaseOf(pc, idx)
          \/ <<PhaseOf(pc, idx), PhaseOf(pc', idx')>> \in PhaseMoves
          \/ /\ PhaseOf(pc, idx) = "TablePrepared" /\ PhaseOf(pc', idx') = "Committed"
             /\ Len(df) = 0
       /\ (idx' # idx) => (idx' = idx + 1 /\ Len(sent') = idx' /\ idx' <= Len(df))
       /\ (pc' = "connect" /\ pc # "connect") => (pc = "start" /\ conn = "none")
       /\ (conn' = "open" /\ conn # "open") => (pc = "connect" /\ conn = "none")

\* C13: the load phase moves Idle, TablePrepared, Loading, Committed,
\* Verified in that order or ends in AbortedFatal; an execution that enters
\* it ends in Verified or AbortedFatal; no row is attempted twice and the
\* connection is opened at most once in an execution.
C13_LoadPhases ==
    /\ [][C13_Step]_vars
    /\ [](Len(sent) = idx /\ idx <= Len(df))
    /\ [](pc = "connect" => <>(pc \in {"done", "failed"}))
C13_Witness ==
    pc = "done" /\ Len(df) = 2 /\ idx = 2 /\ conn = "closed"

\* the column whose cleaned name is exactly nm, 0 when there is none
ColumnNamed(nm) ==
    IF \E i \in 1..Len(columns) : columns[i] = nm
    THEN CHOOSE i \in 1..Len(columns) : columns[i] = nm
    ELSE 0

\* C14: the start and end timestamps handed to the insert of a row are the
\* row's values in the columns whose cleaned names are exactly "start" and
\* "end", which the store keeps as they are for a loaded row; without such a
\* column the timestamp is None, stored as NULL, and the row does not fail
\* for that.
C14_ExactStartAndEnd ==
    \A k \in 1..Len(sent) :
        LET p == sent[k].params
            s == ColumnNamed(<<"s","t","a","r","t">>)
            e == ColumnNamed(<<"e","n","d">>)
        IN  /\ p.submission_start = IF s = 0 THEN None ELSE df[k][s]
            /\ p.submission_end = IF e = 0 THEN None ELSE df[k][e]
            /\ s = 0 => StoreTimestamp(p.submission_start).k = "null"
            /\ e = 0 => StoreTimestamp(p.submission_end).k = "null"
            /\ (s # 0 /\ sent[k].ok) => StoreTimestamp(p.submission_start).k = "ts"
            /\ (e # 0 /\ sent[k].ok) => StoreTimestamp(p.submission_end).k = "ts"
            /\ (s = 0 /\ e = 0) => (sent[k].ok \/ FailedForAnotherReason(k))
C14_Witness ==
    /\ pc = "done" /\ Len(sent) = 1 /\ sent[1].ok
    /\ \E i, j \in 1..Len(columns) :
          /\ columns[i] = <<"S","t","a","r","t">> /\ df[1][i].k = "datestr"
          /\ columns[j] = <<"e","n","d">> /\ df[1][j].k = "ts"
    /\ db.table.rows[1].submission_start.k = "null"
    /\ db.table.rows[1].submission_end = df[1][ColumnNamed(<<"e","n","d">>)]

C15_Step ==
    (run' = run)
    => IF idx' # idx
       THEN \/ /\ records_inserted' = records_inserted + 1
               /\ errors_count' = errors_count
            \/ /\ errors_count' = errors_count + 1
               /\ records_inserted' = records_inserted
       ELSE records_inserted' = records_inserted /\ errors_count' = errors_count

\* C15: at every point of the load records_inserted + errors_count is the
\* number of rows attempted so far, each attempted row adds one to exactly
\* one of the two counters, and after the loop the sum is the number of rows
\* of the DataFrame.
C15_CountersAddUp ==
    /\ [](records_inserted + errors_count = idx /\ idx = Len(sent))
    /\ [][C15_Step]_vars
    /\ [](pc \in {"verify", "done"} => records_inserted + errors_count = Len(df))
C15_Witness ==
    /\ pc = "verify" /\ Len(df) = 2
    /\ records_inserted = 1 /\ errors_count = 1

\* C16: when the verification read is reached, the count read back from the
\* table is records_inserted. The code violates it.
C16_CountIsRecordsInserted ==
    (pc = "done") => (total_records = <<records_inserted>>)

====
